---- MODULE Spec2Model ----
(***************************************************************************)
(* carboncopycat: a model of the line engine (src/src/lib.rs) and of its   *)
(* configuration (src/src/options.rs).                                     *)
(*                                                                         *)
(* Bytes are integers 0..255, byte strings are sequences of bytes.  The    *)
(* sink is the sequence `out` of the bytes it has accepted.  Positions in  *)
(* a buffer are 0-based as in the source; TLA+ sequences are 1-based, so   *)
(* the byte at position p of buf is buf[p + 1].                            *)
(***************************************************************************)
EXTENDS Integers, Sequences, FiniteSets, TLC

(***************************************************************************)
(* Bounds of the model.                                                    *)
(***************************************************************************)
\* the number of input bytes of an invocation on one file
MaxLen == 4
\* the number of input bytes, over all its files, of an invocation on several
MaxFilesLen == 4
\* the number of files of one invocation
MaxFiles == 2
\* the number of bytes around the byte under test in the inputs of RenderSpec
MaxRenderLen == 1
\* the number of command-line arguments of ArgsSpec
MaxArgs == 3
\* the largest major, minor and patch number of the package version
MaxVersionPart == 2

(***************************************************************************)
(* Program constants.                                                      *)
(***************************************************************************)
\* b'\t', b'\n', b'\r'
TAB == 9
LF == 10
CR == 13
\* the width of the line-number field in "{0:6}\t"
NumberWidth == 6
\* the sizes of the read buffers of cat_fast and cat_lines
FastBufSize == 65536
LinesBufSize == 31744

\* the bytes of "^", "?", "M", "-", "I", "$", " " and "0"
Caret == 94
Quest == 63
UpperM == 77
Minus == 45
UpperI == 73
Dollar == 36
Space == 32
Zero == 48

\* The bytes the input files are drawn from: a tab, the two line-end bytes
\* and one printable byte, the letter a.
Alphabet == {TAB, LF, CR, 97}

NumberingModes == {"None", "NonEmpty", "All"}

\* options.rs: struct Options
OptionsSet ==
    [number : NumberingModes, show_ends : BOOLEAN, squeeze_blank : BOOLEAN,
     show_tabs : BOOLEAN, show_nonprinting : BOOLEAN]

\* options.rs: Options::new
Options_new ==
    [number |-> "None", show_ends |-> FALSE, squeeze_blank |-> FALSE,
     show_tabs |-> FALSE, show_nonprinting |-> FALSE]

\* options.rs: Options::tab
tab(options) == IF options.show_tabs THEN <<Caret, UpperI>> ELSE <<TAB>>

\* options.rs: Options::end_of_line
end_of_line(options) == IF options.show_ends THEN <<Dollar, LF>> ELSE <<LF>>

\* a variant of can_write_fast that leaves squeeze_blank out
can_write_fast_without_squeeze(options) ==
    ~(\/ options.show_tabs
      \/ options.show_nonprinting
      \/ options.show_ends
      \/ options.number # "None")

\* options.rs: Options::can_write_fast
can_write_fast(options) ==
    ~(\/ options.show_tabs
      \/ options.show_nonprinting
      \/ options.show_ends
      \/ options.squeeze_blank
      \/ options.number # "None")

(***************************************************************************)
(* Argument parsing (src/src/main.rs).  An argument that starts with "--"  *)
(* is [kind |-> "long", text |-> the name after "--"]; another argument    *)
(* that starts with "-" is [kind |-> "short", text |-> the sequence of its *)
(* characters after the "-"]; any other argument is a file path,           *)
(* [kind |-> "path", text |-> the contents of the file it names].          *)
(***************************************************************************)
ShortOptions == {"A", "b", "e", "E", "n", "s", "t", "T", "u", "v"}

LongOptions ==
    {"show-all", "number-nonblank", "show-ends", "number", "squeeze-blank",
     "show-tabs", "show-nonprinting"}

\* a variant of short_option in which n sets numbering All unconditionally
short_option_n_overrides(options, c) ==
    CASE c = "A" -> [options EXCEPT !.show_nonprinting = TRUE,
                                    !.show_tabs = TRUE, !.show_ends = TRUE]
      [] c = "b" -> [options EXCEPT !.number = "NonEmpty"]
      [] c = "e" -> [options EXCEPT !.show_nonprinting = TRUE,
                                    !.show_ends = TRUE]
      [] c = "E" -> [options EXCEPT !.show_ends = TRUE]
      [] c = "n" -> [options EXCEPT !.number = "All"]
      [] c = "s" -> [options EXCEPT !.squeeze_blank = TRUE]
      [] c = "t" -> [options EXCEPT !.show_nonprinting = TRUE,
                                    !.show_tabs = TRUE]
      [] c = "T" -> [options EXCEPT !.show_tabs = TRUE]
      [] c = "u" -> options
      [] c = "v" -> [options EXCEPT !.show_nonprinting = TRUE]

\* main.rs: parse_args, the match on a character of a short argument
short_option(options, c) ==
    CASE c = "A" -> [options EXCEPT !.show_nonprinting = TRUE,
                                    !.show_tabs = TRUE, !.show_ends = TRUE]
      [] c = "b" -> [options EXCEPT !.number = "NonEmpty"]
      [] c = "e" -> [options EXCEPT !.show_nonprinting = TRUE,
                                    !.show_ends = TRUE]
      [] c = "E" -> [options EXCEPT !.show_ends = TRUE]
      [] c = "n" -> IF options.number = "None"
                    THEN [options EXCEPT !.number = "All"] ELSE options
      [] c = "s" -> [options EXCEPT !.squeeze_blank = TRUE]
      [] c = "t" -> [options EXCEPT !.show_nonprinting = TRUE,
                                    !.show_tabs = TRUE]
      [] c = "T" -> [options EXCEPT !.show_tabs = TRUE]
      [] c = "u" -> options
      [] c = "v" -> [options EXCEPT !.show_nonprinting = TRUE]

\* main.rs: parse_args, the loop over the characters of a short argument
RECURSIVE short_options(_, _)
short_options(options, chars) ==
    IF chars = <<>> THEN options
    ELSE short_options(short_option(options, Head(chars)), Tail(chars))

\* main.rs: parse_args, the match on the name of a long argument
long_option(options, name) ==
    CASE name = "show-all" ->
             [options EXCEPT !.show_nonprinting = TRUE, !.show_tabs = TRUE,
                             !.show_ends = TRUE]
      [] name = "number-nonblank" -> [options EXCEPT !.number = "NonEmpty"]
      [] name = "show-ends" -> [options EXCEPT !.show_ends = TRUE]
      [] name = "number" -> IF options.number = "None"
                            THEN [options EXCEPT !.number = "All"] ELSE options
      [] name = "squeeze-blank" -> [options EXCEPT !.squeeze_blank = TRUE]
      [] name = "show-tabs" -> [options EXCEPT !.show_tabs = TRUE]
      [] name = "show-nonprinting" -> [options EXCEPT !.show_nonprinting = TRUE]

\* the argument is one parse_args goes on after: a file path or valid options
valid_argument(arg) ==
    CASE arg.kind = "long" -> arg.text \in LongOptions
      [] arg.kind = "short" ->
             \A i \in 1..Len(arg.text) : arg.text[i] \in ShortOptions
      [] arg.kind = "path" -> TRUE

(***************************************************************************)
(* The texts main.rs prints on the standard output, as bytes.  The styles  *)
(* are those of owo_colors: an SGR escape sequence before the text and the *)
(* one that resets it after.                                               *)
(***************************************************************************)
\* owo_colors: bright_green(), "\x1b[92m" .. "\x1b[39m"
bright_green(s) == <<27, 91, 57, 50, 109>> \o s \o <<27, 91, 51, 57, 109>>

\* owo_colors: bright_yellow(), "\x1b[93m" .. "\x1b[39m"
bright_yellow(s) == <<27, 91, 57, 51, 109>> \o s \o <<27, 91, 51, 57, 109>>

\* owo_colors: bright_blue(), "\x1b[94m" .. "\x1b[39m"
bright_blue(s) == <<27, 91, 57, 52, 109>> \o s \o <<27, 91, 51, 57, 109>>

\* owo_colors: bold(), "\x1b[1m" .. "\x1b[0m"
bold(s) == <<27, 91, 49, 109>> \o s \o <<27, 91, 48, 109>>

\* owo_colors: underline(), "\x1b[4m" .. "\x1b[0m"
underline(s) == <<27, 91, 52, 109>> \o s \o <<27, 91, 48, 109>>

\* args[0], the name the program was started by: "ccc"
program == <<99, 99, 99>>

\* main.rs: usage, the text between the usage line and the examples, with the
\* b'\n' println! adds:
\* | With no FILE, or when FILE is -, read standard input.
\* |
\* |     -A, --show-all           equivalent to -vET
\* |     -b, --number-nonblank    number nonempty output lines, overrides -n
\* |     -e                       equivalent to -vE
\* |     -E, --show-ends          display $ at end of each line
\* |     -n, --number             number all output lines
\* |     -s, --squeeze-blank      suppress repeated empty output lines
\* |     -t                       equivalent to -vT
\* |     -T, --show-tabs          display TAB characters as ^I
\* |     -u                       (ignored)
\* |     -v, --show-nonprinting   use ^ and M- notation, except for LFD and TAB
\* |         --help               display this help and exit
\* |         --version            output version information and exit
\* |
usage_options ==
    <<87, 105, 116, 104, 32, 110, 111, 32, 70, 73, 76, 69, 44, 32, 111, 114,
      32, 119, 104, 101, 110, 32, 70, 73, 76, 69, 32, 105, 115, 32, 45, 44,
      32, 114, 101, 97, 100, 32, 115, 116, 97, 110, 100, 97, 114, 100, 32,
      105, 110, 112, 117, 116, 46, 10, 10, 32, 32, 32, 32, 45, 65, 44, 32, 45,
      45, 115, 104, 111, 119, 45, 97, 108, 108, 32, 32, 32, 32, 32, 32, 32,
      32, 32, 32, 32, 101, 113, 117, 105, 118, 97, 108, 101, 110, 116, 32,
      116, 111, 32, 45, 118, 69, 84, 10, 32, 32, 32, 32, 45, 98, 44, 32, 45,
      45, 110, 117, 109, 98, 101, 114, 45, 110, 111, 110, 98, 108, 97, 110,
      107, 32, 32, 32, 32, 110, 117, 109, 98, 101, 114, 32, 110, 111, 110,
      101, 109, 112, 116, 121, 32, 111, 117, 116, 112, 117, 116, 32, 108, 105,
      110, 101, 115, 44, 32, 111, 118, 101, 114, 114, 105, 100, 101, 115, 32,
      45, 110, 10, 32, 32, 32, 32, 45, 101, 32, 32, 32, 32, 32, 32, 32, 32,
      32, 32, 32, 32, 32, 32, 32, 32, 32, 32, 32, 32, 32, 32, 32, 101, 113,
      117, 105, 118, 97, 108, 101, 110, 116, 32, 116, 111, 32, 45, 118, 69,
      10, 32, 32, 32, 32, 45, 69, 44, 32, 45, 45, 115, 104, 111, 119, 45, 101,
      110, 100, 115, 32, 32, 32, 32, 32, 32, 32, 32, 32, 32, 100, 105, 115,
      112, 108, 97, 121, 32, 36, 32, 97, 116, 32, 101, 110, 100, 32, 111, 102,
      32, 101, 97, 99, 104, 32, 108, 105, 110, 101, 10, 32, 32, 32, 32, 45,
      110, 44, 32, 45, 45, 110, 117, 109, 98, 101, 114, 32, 32, 32, 32, 32,
      32, 32, 32, 32, 32, 32, 32, 32, 110, 117, 109, 98, 101, 114, 32, 97,
      108, 108, 32, 111, 117, 116, 112, 117, 116, 32, 108, 105, 110, 101, 115,
      10, 32, 32, 32, 32, 45, 115, 44, 32, 45, 45, 115, 113, 117, 101, 101,
      122, 101, 45, 98, 108, 97, 110, 107, 32, 32, 32, 32, 32, 32, 115, 117,
      112, 112, 114, 101, 115, 115, 32, 114, 101, 112, 101, 97, 116, 101, 100,
      32, 101, 109, 112, 116, 121, 32, 111, 117, 116, 112, 117, 116, 32, 108,
      105, 110, 101, 115, 10, 32, 32, 32, 32, 45, 116, 32, 32, 32, 32, 32, 32,
      32, 32, 32, 32, 32, 32, 32, 32, 32, 32, 32, 32, 32, 32, 32, 32, 32, 101,
      113, 117, 105, 118, 97, 108, 101, 110, 116, 32, 116, 111, 32, 45, 118,
      84, 10, 32, 32, 32, 32, 45, 84, 44, 32, 45, 45, 115, 104, 111, 119, 45,
      116, 97, 98, 115, 32, 32, 32, 32, 32, 32, 32, 32, 32, 32, 100, 105, 115,
      112, 108, 97, 121, 32, 84, 65, 66, 32, 99, 104, 97, 114, 97, 99, 116,
      101, 114, 115, 32, 97, 115, 32, 94, 73, 10, 32, 32, 32, 32, 45, 117, 32,
      32, 32, 32, 32, 32, 32, 32, 32, 32, 32, 32, 32, 32, 32, 32, 32, 32, 32,
      32, 32, 32, 32, 40, 105, 103, 110, 111, 114, 101, 100, 41, 10, 32, 32,
      32, 32, 45, 118, 44, 32, 45, 45, 115, 104, 111, 119, 45, 110, 111, 110,
      112, 114, 105, 110, 116, 105, 110, 103, 32, 32, 32, 117, 115, 101, 32,
      94, 32, 97, 110, 100, 32, 77, 45, 32, 110, 111, 116, 97, 116, 105, 111,
      110, 44, 32, 101, 120, 99, 101, 112, 116, 32, 102, 111, 114, 32, 76, 70,
      68, 32, 97, 110, 100, 32, 84, 65, 66, 10, 32, 32, 32, 32, 32, 32, 32,
      32, 45, 45, 104, 101, 108, 112, 32, 32, 32, 32, 32, 32, 32, 32, 32, 32,
      32, 32, 32, 32, 32, 100, 105, 115, 112, 108, 97, 121, 32, 116, 104, 105,
      115, 32, 104, 101, 108, 112, 32, 97, 110, 100, 32, 101, 120, 105, 116,
      10, 32, 32, 32, 32, 32, 32, 32, 32, 45, 45, 118, 101, 114, 115, 105,
      111, 110, 32, 32, 32, 32, 32, 32, 32, 32, 32, 32, 32, 32, 111, 117, 116,
      112, 117, 116, 32, 118, 101, 114, 115, 105, 111, 110, 32, 105, 110, 102,
      111, 114, 109, 97, 116, 105, 111, 110, 32, 97, 110, 100, 32, 101, 120,
      105, 116, 10, 10>>

\* main.rs: usage, the bytes it prints
usage(program_name) ==
    <<LF>>
    \o underline(bold(<<85, 115, 97, 103, 101, 58>>))
    \o <<Space>> \o bright_green(program_name)
    \o <<Space>> \o bright_blue(<<91, 79, 80, 84, 73, 79, 78, 93, 46, 46, 46>>)
    \o <<Space>> \o bright_yellow(<<91, 70, 73, 76, 69, 93, 46, 46, 46>>)
    \o <<LF, LF>>
    \o usage_options
    \o underline(bold(<<69, 120, 97, 109, 112, 108, 101, 115, 58>>))
    \o <<10, 32, 32, 32, 32>>
    \o bright_green(program_name)
    \o <<32, 102, 32, 45, 32, 103, 32, 32, 79, 117, 116, 112, 117, 116, 32,
          102, 39, 115, 32, 99, 111, 110, 116, 101, 110, 116, 115, 44, 32,
          116, 104, 101, 110, 32, 115, 116, 97, 110, 100, 97, 114, 100, 32,
          105, 110, 112, 117, 116, 44, 32, 116, 104, 101, 110, 32, 103, 39,
          115, 32, 99, 111, 110, 116, 101, 110, 116, 115, 46, 10, 32, 32, 32,
          32>>
    \o bright_green(program_name)
    \o <<32, 32, 32, 32, 32, 32, 32, 32, 67, 111, 112, 121, 32, 115, 116, 97,
          110, 100, 97, 114, 100, 32, 105, 110, 112, 117, 116, 32, 116, 111,
          32, 115, 116, 97, 110, 100, 97, 114, 100, 32, 111, 117, 116, 112,
          117, 116, 46, 10, 10>>
    \o <<83, 111, 117, 114, 99, 101, 32, 99, 111, 100, 101, 58, 32>>
    \o bright_blue(<<60, 104, 116, 116, 112, 115, 58, 47, 47, 103, 105, 116, 104, 117,
          98, 46, 99, 111, 109, 47, 112, 105, 108, 108, 101, 121, 101, 47, 99,
          97, 114, 98, 111, 110, 99, 111, 112, 121, 99, 97, 116, 62>>)
    \o <<LF>>

\* main.rs: parse_args, the line --version prints: "{program} v{VERSION}"
version_line(program_name, version) ==
    bright_green(program_name) \o <<Space, 118>> \o version \o <<LF>>

(***************************************************************************)
(* Byte-string helpers.                                                    *)
(***************************************************************************)
\* s[from..], with from a 0-based position
Tail0(s, from) == SubSeq(s, from + 1, Len(s))

\* s[..to], with to a 0-based position (exclusive)
Head0(s, to) == SubSeq(s, 1, to)

\* Iterator::position: the 0-based position of the first byte of s that is
\* in stops, or -1 (None) when there is none
position(s, stops) ==
    IF \E i \in 1..Len(s) : s[i] \in stops
    THEN (CHOOSE i \in 1..Len(s) :
              /\ s[i] \in stops
              /\ \A j \in 1..(i - 1) : s[j] \notin stops) - 1
    ELSE -1

\* the decimal digits of n
RECURSIVE Digits(_)
Digits(n) ==
    IF n < 10 THEN <<Zero + n>> ELSE Digits(n \div 10) \o <<Zero + (n % 10)>>

\* s padded on the left with spaces to at least w bytes
RECURSIVE PadLeft(_, _)
PadLeft(s, w) == IF Len(s) >= w THEN s ELSE PadLeft(<<Space>> \o s, w)

\* write!(output, "{0:6}\t", line_number): the bytes written
format_line_number(line_number) ==
    PadLeft(Digits(line_number), NumberWidth) \o <<TAB>>

(***************************************************************************)
(* The body-rendering routines.  Each returns the sink after its writes    *)
(* (output) and the value it returns (ret).                                *)
(***************************************************************************)
\* lib.rs: write_to_end
write_to_end(inbuf, output) ==
    LET p == position(inbuf, {LF, CR})
    IN  IF p # -1
        THEN [output |-> output \o Head0(inbuf, p), ret |-> p]
        ELSE [output |-> output \o inbuf, ret |-> Len(inbuf)]

\* lib.rs: the loop of write_tab_to_end, with its local count
RECURSIVE write_tab_loop(_, _, _)
write_tab_loop(inbuf, output, count) ==
    LET p == position(inbuf, {LF, TAB, CR})
    IN  IF p # -1
        THEN IF inbuf[p + 1] = TAB
             THEN write_tab_loop(Tail0(inbuf, p + 1),
                                 output \o Head0(inbuf, p) \o <<Caret, UpperI>>,
                                 count + p + 1)
             ELSE [output |-> output \o Head0(inbuf, p), ret |-> count + p]
        ELSE [output |-> output \o inbuf, ret |-> Len(inbuf)]

\* lib.rs: write_tab_to_end
write_tab_to_end(inbuf, output) == write_tab_loop(inbuf, output, 0)

\* a variant of nonprint_byte with the offset of the range 128..=159 used for
\* the range 160..=254 too
nonprint_byte_one_offset(byte, tabrep) ==
    CASE byte = 9 -> tabrep
      [] byte \in (0..8) \cup (10..31) -> <<Caret, byte + 64>>
      [] byte \in 32..126 -> <<byte>>
      [] byte = 127 -> <<Caret, Quest>>
      [] byte \in 128..159 -> <<UpperM, Minus, Caret, byte - 64>>
      [] byte \in 160..254 -> <<UpperM, Minus, byte - 64>>
      [] OTHER -> <<UpperM, Minus, Caret, Quest>>

\* lib.rs: the match of write_nonprint_to_end, the bytes written for one byte
nonprint_byte(byte, tabrep) ==
    CASE byte = 9 -> tabrep
      [] byte \in (0..8) \cup (10..31) -> <<Caret, byte + 64>>
      [] byte \in 32..126 -> <<byte>>
      [] byte = 127 -> <<Caret, Quest>>
      [] byte \in 128..159 -> <<UpperM, Minus, Caret, byte - 64>>
      [] byte \in 160..254 -> <<UpperM, Minus, byte - 128>>
      [] OTHER -> <<UpperM, Minus, Caret, Quest>>

\* lib.rs: the loop of write_nonprint_to_end, with its local count
RECURSIVE write_nonprint_loop(_, _, _, _)
write_nonprint_loop(inbuf, output, tabrep, count) ==
    IF count = Len(inbuf) \/ inbuf[count + 1] = LF
    THEN [output |-> output, ret |-> count]
    ELSE write_nonprint_loop(inbuf,
                             output \o nonprint_byte(inbuf[count + 1], tabrep),
                             tabrep, count + 1)

\* a variant of write_nonprint_to_end that stops at a b'\r' as the other
\* body-rendering routines do
write_nonprint_to_end_stops_at_cr(inbuf, output, tabrep) ==
    LET p == position(inbuf, {LF, CR})
    IN  write_nonprint_loop(IF p = -1 THEN inbuf ELSE Head0(inbuf, p),
                            output, tabrep, 0)

\* lib.rs: write_nonprint_to_end
write_nonprint_to_end(inbuf, output, tabrep) ==
    write_nonprint_loop(inbuf, output, tabrep, 0)

\* lib.rs: write_end
write_end(output, inbuf, options) ==
    IF options.show_nonprinting
    THEN write_nonprint_to_end(inbuf, output, tab(options))
    ELSE IF options.show_tabs
    THEN write_tab_to_end(inbuf, output)
    ELSE write_to_end(inbuf, output)

\* lib.rs: write_end_of_line
write_end_of_line(writer, eol) == writer \o eol

(***************************************************************************)
(* The engine state and the line scanner.                                  *)
(***************************************************************************)
\* lib.rs: the State literal of cat
NewState ==
    [line_number |-> 0, at_line_start |-> TRUE,
     skipped_carriage_return |-> FALSE, one_blank_kept |-> FALSE]

\* a variant of write_new_line that numbers an empty line in every numbering
\* mode, not only in mode All
write_new_line_numbers_any(output, options, state) ==
    LET caret == state.skipped_carriage_return /\ options.show_ends
        o1 == IF caret THEN output \o <<Caret, UpperM>> ELSE output
        s1 == IF caret THEN [state EXCEPT !.skipped_carriage_return = FALSE]
                       ELSE state
        emit == \/ ~s1.at_line_start
                \/ ~options.squeeze_blank
                \/ ~s1.one_blank_kept
        numbered == s1.at_line_start /\ options.number # "None"
        o2 == IF numbered THEN o1 \o format_line_number(s1.line_number) ELSE o1
        s2 == [s1 EXCEPT !.one_blank_kept = TRUE,
                         !.line_number = IF numbered THEN @ + 1 ELSE @]
    IN  IF emit
        THEN [output |-> o2 \o end_of_line(options), state |-> s2]
        ELSE [output |-> o1, state |-> s1]

\* a variant of write_new_line that writes the deferred carriage return as
\* the byte itself, not as ^M
write_new_line_literal_cr(output, options, state) ==
    LET caret == state.skipped_carriage_return /\ options.show_ends
        o1 == IF caret THEN output \o <<CR>> ELSE output
        s1 == IF caret THEN [state EXCEPT !.skipped_carriage_return = FALSE]
                       ELSE state
        emit == \/ ~s1.at_line_start
                \/ ~options.squeeze_blank
                \/ ~s1.one_blank_kept
        numbered == s1.at_line_start /\ options.number = "All"
        o2 == IF numbered THEN o1 \o format_line_number(s1.line_number) ELSE o1
        s2 == [s1 EXCEPT !.one_blank_kept = TRUE,
                         !.line_number = IF numbered THEN @ + 1 ELSE @]
    IN  IF emit
        THEN [output |-> o2 \o end_of_line(options), state |-> s2]
        ELSE [output |-> o1, state |-> s1]

\* a variant of write_new_line that writes the number of an empty line before
\* it tests whether the line is squeezed away
write_new_line_numbers_squeezed(output, options, state) ==
    LET caret == state.skipped_carriage_return /\ options.show_ends
        o1 == IF caret THEN output \o <<Caret, UpperM>> ELSE output
        s1 == IF caret THEN [state EXCEPT !.skipped_carriage_return = FALSE]
                       ELSE state
        emit == \/ ~s1.at_line_start
                \/ ~options.squeeze_blank
                \/ ~s1.one_blank_kept
        numbered == s1.at_line_start /\ options.number = "All"
        o2 == IF numbered THEN o1 \o format_line_number(s1.line_number) ELSE o1
        s2 == [s1 EXCEPT !.one_blank_kept = TRUE,
                         !.line_number = IF numbered THEN @ + 1 ELSE @]
    IN  IF emit
        THEN [output |-> o2 \o end_of_line(options), state |-> s2]
        ELSE [output |-> o2, state |-> s2]

\* lib.rs: write_new_line; returns the sink and the state after the call
write_new_line(output, options, state) ==
    LET caret == state.skipped_carriage_return /\ options.show_ends
        o1 == IF caret THEN output \o <<Caret, UpperM>> ELSE output
        s1 == IF caret THEN [state EXCEPT !.skipped_carriage_return = FALSE]
                       ELSE state
        emit == \/ ~s1.at_line_start
                \/ ~options.squeeze_blank
                \/ ~s1.one_blank_kept
        numbered == s1.at_line_start /\ options.number = "All"
        o2 == IF numbered THEN o1 \o format_line_number(s1.line_number) ELSE o1
        s2 == [s1 EXCEPT !.one_blank_kept = TRUE,
                         !.line_number = IF numbered THEN @ + 1 ELSE @]
    IN  IF emit
        THEN [output |-> o2 \o end_of_line(options), state |-> s2]
        ELSE [output |-> o1, state |-> s1]

\* lib.rs: one iteration of the inner loop of cat_lines (while pos < n).
\* brk: the iteration left the loop by break; assert_ok: the debug_assert_eq!
\* of the iteration, if it reached it, held; pre: the sink when the iteration
\* reaches the place of the debug_assert_eq!.
scan_step(output, options, state, inbuf, pos) ==
    IF inbuf[pos + 1] = LF
    THEN LET r == write_new_line(output, options, state)
         IN  [output |-> r.output,
              state |-> [r.state EXCEPT !.at_line_start = TRUE],
              pos |-> pos + 1, brk |-> FALSE, assert_ok |-> TRUE,
              pre |-> r.output]
    ELSE LET skipped == state.skipped_carriage_return
             o1 == IF skipped THEN output \o <<CR>> ELSE output
             s1 == IF skipped
                   THEN [state EXCEPT !.skipped_carriage_return = FALSE,
                                      !.at_line_start = FALSE]
                   ELSE state
             s2 == [s1 EXCEPT !.one_blank_kept = FALSE]
             numbered == s2.at_line_start /\ options.number # "None"
             o2 == IF numbered
                   THEN o1 \o format_line_number(s2.line_number) ELSE o1
             s3 == [s2 EXCEPT !.line_number = IF numbered THEN @ + 1 ELSE @]
             w == write_end(o2, Tail0(inbuf, pos), options)
             offset == w.ret
         IN  IF offset + pos = Len(inbuf)
             THEN [output |-> w.output,
                   state |-> [s3 EXCEPT !.at_line_start = FALSE],
                   pos |-> pos, brk |-> TRUE, assert_ok |-> TRUE,
                   pre |-> w.output]
             ELSE IF inbuf[pos + offset + 1] = CR
             THEN [output |-> w.output,
                   state |-> [s3 EXCEPT !.skipped_carriage_return = TRUE],
                   pos |-> pos + offset + 1, brk |-> FALSE, assert_ok |-> TRUE,
                   pre |-> w.output]
             ELSE [output |-> write_end_of_line(w.output, end_of_line(options)),
                   state |-> [s3 EXCEPT !.at_line_start = TRUE],
                   pos |-> pos + offset + 1, brk |-> FALSE,
                   assert_ok |-> inbuf[pos + offset + 1] = LF,
                   pre |-> w.output]

(***************************************************************************)
(* The calls an iteration makes on the sink, in order.  A call is a        *)
(* write_all of some bytes or a flush; checked tells whether its error is  *)
(* returned with `?` (TRUE) or unwrapped (FALSE).                          *)
(***************************************************************************)
WriteAll(bytes, checked) ==
    [op |-> "write_all", bytes |-> bytes, checked |-> checked]

Flush == [op |-> "flush", bytes |-> <<>>, checked |-> TRUE]

\* lib.rs: write!(output, "{0:6}\t", line_number), its calls on the sink:
\* write_fmt passes every padding space, the digits and the b'\t' of the
\* format string to write_all one by one, each returned with `?`
write_line_number_calls(line_number) ==
    LET digits == Digits(line_number)
        padding == IF Len(digits) >= NumberWidth THEN 0
                   ELSE NumberWidth - Len(digits)
    IN  [i \in 1..padding |-> WriteAll(<<Space>>, TRUE)]
            \o <<WriteAll(digits, TRUE), WriteAll(<<TAB>>, TRUE)>>

\* lib.rs: write_to_end, its call of write_all(..).unwrap()
write_to_end_calls(inbuf) ==
    LET p == position(inbuf, {LF, CR})
    IN  IF p # -1 THEN <<WriteAll(Head0(inbuf, p), FALSE)>>
                  ELSE <<WriteAll(inbuf, FALSE)>>

\* lib.rs: write_tab_to_end, its calls of write_all(..).unwrap()
RECURSIVE write_tab_to_end_calls(_)
write_tab_to_end_calls(inbuf) ==
    LET p == position(inbuf, {LF, TAB, CR})
    IN  IF p # -1
        THEN IF inbuf[p + 1] = TAB
             THEN <<WriteAll(Head0(inbuf, p), FALSE),
                    WriteAll(<<Caret, UpperI>>, FALSE)>>
                      \o write_tab_to_end_calls(Tail0(inbuf, p + 1))
             ELSE <<WriteAll(Head0(inbuf, p), FALSE)>>
        ELSE <<WriteAll(inbuf, FALSE)>>

\* lib.rs: write_nonprint_to_end, its calls of write_all(..).unwrap()
RECURSIVE write_nonprint_to_end_calls(_, _)
write_nonprint_to_end_calls(inbuf, tabrep) ==
    IF inbuf = <<>> \/ Head(inbuf) = LF THEN <<>>
    ELSE <<WriteAll(nonprint_byte(Head(inbuf), tabrep), FALSE)>>
             \o write_nonprint_to_end_calls(Tail(inbuf), tabrep)

\* lib.rs: write_end, the calls of the routine it selects
write_end_calls(inbuf, options) ==
    IF options.show_nonprinting
    THEN write_nonprint_to_end_calls(inbuf, tab(options))
    ELSE IF options.show_tabs
    THEN write_tab_to_end_calls(inbuf)
    ELSE write_to_end_calls(inbuf)

\* lib.rs: write_end_of_line, its calls
write_end_of_line_calls(eol) == <<WriteAll(eol, TRUE), Flush>>

\* a variant of write_new_line_calls that does not flush
write_new_line_calls_no_flush(options, state) ==
    LET caret == state.skipped_carriage_return /\ options.show_ends
        emit == \/ ~state.at_line_start
                \/ ~options.squeeze_blank
                \/ ~state.one_blank_kept
        numbered == state.at_line_start /\ options.number = "All"
    IN  (IF caret THEN <<WriteAll(<<Caret, UpperM>>, TRUE)>> ELSE <<>>)
        \o (IF emit /\ numbered
            THEN write_line_number_calls(state.line_number)
            ELSE <<>>)
        \o (IF emit THEN <<WriteAll(end_of_line(options), TRUE)>> ELSE <<>>)

\* lib.rs: write_new_line, its calls
write_new_line_calls(options, state) ==
    LET caret == state.skipped_carriage_return /\ options.show_ends
        emit == \/ ~state.at_line_start
                \/ ~options.squeeze_blank
                \/ ~state.one_blank_kept
        numbered == state.at_line_start /\ options.number = "All"
    IN  (IF caret THEN <<WriteAll(<<Caret, UpperM>>, TRUE)>> ELSE <<>>)
        \o (IF emit /\ numbered
            THEN write_line_number_calls(state.line_number)
            ELSE <<>>)
        \o (IF emit THEN <<WriteAll(end_of_line(options), TRUE), Flush>>
            ELSE <<>>)

\* lib.rs: one iteration of the inner loop of cat_lines, its calls in a
\* build without debug assertions
scan_calls(options, state, inbuf, pos) ==
    IF inbuf[pos + 1] = LF
    THEN write_new_line_calls(options, state)
    ELSE LET skipped == state.skipped_carriage_return
             numbered == /\ state.at_line_start
                         /\ ~skipped
                         /\ options.number # "None"
             rest == Tail0(inbuf, pos)
             offset == write_end(<<>>, rest, options).ret
         IN  (IF skipped THEN <<WriteAll(<<CR>>, TRUE)>> ELSE <<>>)
             \o (IF numbered
                 THEN write_line_number_calls(state.line_number)
                 ELSE <<>>)
             \o write_end_calls(rest, options)
             \o (IF offset + pos # Len(inbuf) /\ inbuf[pos + offset + 1] # CR
                 THEN write_end_of_line_calls(end_of_line(options))
                 ELSE <<>>)

\* the sink (its bytes, and the lengths at which it was flushed) after calls
RECURSIVE sink_after(_, _)
sink_after(calls, sink) ==
    IF calls = <<>> THEN sink
    ELSE LET c == Head(calls)
         IN  sink_after(Tail(calls),
                 IF c.op = "flush"
                 THEN [sink EXCEPT !.flushes = @ \cup {Len(sink.bytes)}]
                 ELSE [sink EXCEPT !.bytes = @ \o c.bytes])

(***************************************************************************)
(* The program as a state machine: one invocation of cat_files.            *)
(***************************************************************************)
VARIABLES
    args,       \* the command-line arguments after the program name
    arg_index,  \* parse_args: how many arguments it has processed
    options,    \* the configuration of the invocation
    files,      \* the contents of the files named on the command line
    file_index, \* how many files cat_files has opened
    input,      \* the bytes of the current file not read yet
    inbuf,      \* cat_lines: the chunk the last read returned, inbuf[..n]
    pos,        \* cat_lines: the scan position in inbuf
    state,      \* cat_lines: the engine state
    out,        \* the bytes the sink has accepted
    flushes,    \* the lengths of out at which the sink was flushed
    io_failed,  \* "none", or the call that failed: "read" or "write"
    pc,         \* where the invocation is
    result      \* "Running", then how the invocation ended: "Ok", "Err"
                \* or "Panic"

vars == <<args, arg_index, options, files, file_index, input, inbuf, pos, state, out, flushes,
          io_failed, pc, result>>

\* the byte strings over Alphabet of length at most n
ByteStrings(n) == UNION {[1..k -> Alphabet] : k \in 0..n}

\* the lists of exactly k files with at most n bytes in all
RECURSIVE FileLists(_, _)
FileLists(k, n) ==
    IF k = 0 THEN {<<>>}
    ELSE UNION {{<<f>> \o rest : rest \in FileLists(k - 1, n - Len(f))} :
                    f \in ByteStrings(n)}

\* an invocation on one file
SingleFile == FileLists(1, MaxLen)

\* an invocation on several files
SeveralFiles == UNION {FileLists(k, MaxFilesLen) : k \in 2..MaxFiles}

\* the state in which cat_files is entered with the files fs and options o
Start(o, fs) ==
    /\ args = <<>>
    /\ arg_index = 0
    /\ options = o
    /\ files = fs
    /\ file_index = 0
    /\ input = <<>>
    /\ inbuf = <<>>
    /\ pos = 0
    /\ state = NewState
    /\ out = <<>>
    /\ flushes = {}
    /\ io_failed = "none"
    /\ pc = "cat_files"
    /\ result = "Running"

Init == \E o \in OptionsSet, fs \in SingleFile : Start(o, fs)

InitFiles == \E o \in OptionsSet, fs \in SeveralFiles : Start(o, fs)

\* lib.rs: cat_files, one iteration of its loop up to the branch of cat:
\* File::open succeeds; enter cat_fast or cat_lines with a fresh State
cat_files_next ==
    /\ pc = "cat_files"
    /\ file_index < Len(files)
    /\ file_index' = file_index + 1
    /\ input' = files[file_index + 1]
    /\ inbuf' = <<>>
    /\ pos' = 0
    /\ state' = NewState
    /\ pc' = IF can_write_fast(options) THEN "cat_fast" ELSE "cat_lines"
    /\ UNCHANGED <<args, arg_index, options, files, out, flushes, io_failed, result>>

\* lib.rs: cat_files, File::open of the next file fails: the error is
\* returned with `?`, as CatFilesError::NotFound when its kind is NotFound
\* and as CatFilesError::Io otherwise
cat_files_open_err ==
    /\ pc = "cat_files"
    /\ file_index < Len(files)
    /\ pc' = "done"
    /\ result' \in {"NotFound", "Err"}
    /\ UNCHANGED <<args, arg_index, options, files, file_index, input, inbuf,
                   pos, state, out, flushes, io_failed>>

\* lib.rs: cat_files, the loop is over: Ok(())
cat_files_return ==
    /\ pc = "cat_files"
    /\ file_index = Len(files)
    /\ pc' = "done"
    /\ result' = "Ok"
    /\ UNCHANGED <<args, arg_index, options, files, file_index, input, inbuf, pos, state, out,
                   flushes, io_failed>>

\* lib.rs: cat_fast, one iteration of its loop: read returns n > 0 bytes and
\* one call of Write::write accepts k of them, possibly none (Ok(0)); k is
\* not looked at
cat_fast_copy ==
    /\ pc = "cat_fast"
    /\ input # <<>>
    /\ \E n \in 1..Len(input) :
         /\ n <= FastBufSize
         /\ \E k \in 0..n :
              /\ out' = out \o Head0(input, k)
              /\ input' = Tail0(input, n)
    /\ UNCHANGED <<args, arg_index, options, files, file_index, inbuf, pos, state, flushes,
                   io_failed, pc, result>>

\* lib.rs: cat_fast, read returns 0: break, Ok(())
cat_fast_eof ==
    /\ pc = "cat_fast"
    /\ input = <<>>
    /\ pc' = "cat_files"
    /\ UNCHANGED <<args, arg_index, options, files, file_index, input, inbuf, pos, state, out,
                   flushes, io_failed, result>>

\* lib.rs: cat_lines, read returns n > 0 bytes into inbuf
cat_lines_read ==
    /\ pc = "cat_lines"
    /\ input # <<>>
    /\ \E n \in 1..Len(input) :
         /\ n <= LinesBufSize
         /\ inbuf' = Head0(input, n)
         /\ input' = Tail0(input, n)
    /\ pos' = 0
    /\ pc' = "scan"
    /\ UNCHANGED <<args, arg_index, options, files, file_index, state, out, flushes, io_failed,
                   result>>

\* lib.rs: cat_lines, read returns 0: break, Ok(())
cat_lines_eof ==
    /\ pc = "cat_lines"
    /\ input = <<>>
    /\ pc' = "cat_files"
    /\ UNCHANGED <<args, arg_index, options, files, file_index, input, inbuf, pos, state, out,
                   flushes, io_failed, result>>

\* the effect of one iteration of the inner loop, whose result is r
scan_apply(r) ==
    /\ out' = r.output
    /\ flushes' = sink_after(scan_calls(options, state, inbuf, pos),
                             [bytes |-> out, flushes |-> flushes]).flushes
    /\ state' = r.state
    /\ pos' = r.pos
    /\ pc' = IF r.brk \/ r.pos >= Len(inbuf) THEN "cat_lines" ELSE "scan"
    /\ UNCHANGED <<args, arg_index, options, files, file_index, input, inbuf, io_failed, result>>

\* lib.rs: cat_lines, an iteration of the inner loop at a b'\n'
cat_lines_newline ==
    /\ pc = "scan"
    /\ inbuf[pos + 1] = LF
    /\ scan_apply(scan_step(out, options, state, inbuf, pos))

\* lib.rs: cat_lines, an iteration of the inner loop at another byte; a build
\* without debug assertions goes on when the debug_assert_eq! would fail
cat_lines_body ==
    /\ pc = "scan"
    /\ inbuf[pos + 1] # LF
    /\ scan_apply(scan_step(out, options, state, inbuf, pos))

\* lib.rs: cat_lines, the debug_assert_eq! of an iteration fails in a build
\* with debug assertions: the thread panics before the end of line is written
cat_lines_debug_assert ==
    /\ pc = "scan"
    /\ inbuf[pos + 1] # LF
    /\ LET r == scan_step(out, options, state, inbuf, pos)
       IN  /\ ~r.assert_ok
           /\ out' = r.pre
           /\ state' = r.state
    /\ pc' = "done"
    /\ result' = "Panic"
    /\ UNCHANGED <<args, arg_index, options, files, file_index, input, inbuf, pos, flushes,
                   io_failed>>

Next ==
    \/ cat_files_next
    \/ cat_files_open_err
    \/ cat_files_return
    \/ cat_fast_copy
    \/ cat_fast_eof
    \/ cat_lines_read
    \/ cat_lines_eof
    \/ cat_lines_newline
    \/ cat_lines_body
    \/ cat_lines_debug_assert

Spec == Init /\ [][Next]_vars

\* invocations on several files
FilesSpec == InitFiles /\ [][Next]_vars

\* the calls of an iteration before its i-th call, applied to the sink
sink_before(calls, i) ==
    sink_after(SubSeq(calls, 1, i - 1), [bytes |-> out, flushes |-> flushes])

\* the i-th call of calls can fail: write_all of no bytes calls no write
can_fail(calls, i) == calls[i].op = "flush" \/ calls[i].bytes # <<>>

\* the sink when the i-th call of calls fails after the sink accepted k of
\* its bytes: write_all writes what the sink accepts until a write fails
sink_at_failure(calls, i, k) ==
    [sink_before(calls, i) EXCEPT !.bytes = @ \o Head0(calls[i].bytes, k)]

\* the numbers of bytes the sink can have accepted of a failing call: fewer
\* than all of them
accepted_before_failure(c) ==
    IF c.op = "flush" THEN {0} ELSE 0..(Len(c.bytes) - 1)

\* lib.rs: cat_fast, read returns Err: `while let Ok(n)` ends the loop, Ok(())
cat_fast_read_err ==
    /\ pc = "cat_fast"
    /\ io_failed' = "read"
    /\ pc' = "cat_files"
    /\ UNCHANGED <<args, arg_index, options, files, file_index, input, inbuf, pos, state, out,
                   flushes, result>>

\* lib.rs: cat_fast, write returns Err: `?` returns it, cat_files returns
\* CatFilesError::Io
cat_fast_write_err ==
    /\ pc = "cat_fast"
    /\ input # <<>>
    /\ \E n \in 1..Len(input) :
         /\ n <= FastBufSize
         /\ input' = Tail0(input, n)
    /\ io_failed' = "write"
    /\ pc' = "done"
    /\ result' = "Err"
    /\ UNCHANGED <<args, arg_index, options, files, file_index, inbuf, pos, state, out, flushes>>

\* lib.rs: cat_lines, read returns Err: `while let Ok(n)` ends the loop, Ok(())
cat_lines_read_err ==
    /\ pc = "cat_lines"
    /\ io_failed' = "read"
    /\ pc' = "cat_files"
    /\ UNCHANGED <<args, arg_index, options, files, file_index, input, inbuf, pos, state, out,
                   flushes, result>>

\* lib.rs: cat_lines, a call on the sink whose error is returned with `?`
\* fails: cat returns CatError::Io, cat_files returns CatFilesError::Io
cat_lines_write_err ==
    /\ pc = "scan"
    /\ LET calls == scan_calls(options, state, inbuf, pos)
       IN  \E i \in 1..Len(calls) :
               /\ calls[i].checked
               /\ can_fail(calls, i)
               /\ \E k \in accepted_before_failure(calls[i]) :
                      /\ out' = sink_at_failure(calls, i, k).bytes
                      /\ flushes' = sink_at_failure(calls, i, k).flushes
    /\ io_failed' = "write"
    /\ pc' = "done"
    /\ result' = "Err"
    /\ UNCHANGED <<args, arg_index, options, files, file_index, input, inbuf, pos, state>>

\* lib.rs: cat_lines, a write_all(..).unwrap() of a body-rendering routine
\* fails: the thread panics
cat_lines_write_panic ==
    /\ pc = "scan"
    /\ LET calls == scan_calls(options, state, inbuf, pos)
       IN  \E i \in 1..Len(calls) :
               /\ ~calls[i].checked
               /\ can_fail(calls, i)
               /\ \E k \in accepted_before_failure(calls[i]) :
                      /\ out' = sink_at_failure(calls, i, k).bytes
                      /\ flushes' = sink_at_failure(calls, i, k).flushes
    /\ io_failed' = "write"
    /\ pc' = "done"
    /\ result' = "Panic"
    /\ UNCHANGED <<args, arg_index, options, files, file_index, input, inbuf, pos, state>>

NextIo ==
    \/ Next
    \/ cat_fast_read_err
    \/ cat_fast_write_err
    \/ cat_lines_read_err
    \/ cat_lines_write_err
    \/ cat_lines_write_panic

\* invocations on one file whose reads and writes may fail
IoSpec == Init /\ [][NextIo]_vars

\* main.rs: VERSION, the CARGO_PKG_VERSION of the build, which the package
\* manifest sets: "major.minor.patch", each a decimal number
Versions ==
    {Digits(major) \o <<46>> \o Digits(minor) \o <<46>> \o Digits(patch) :
        major \in 0..MaxVersionPart, minor \in 0..MaxVersionPart,
        patch \in 0..MaxVersionPart}

\* The arguments ArgsSpec draws from: every short option alone, n and b in
\* one argument in both orders, every long option, --help, --version, an
\* invalid argument of each kind, and the paths of two files.
Arguments ==
    {[kind |-> "short", text |-> <<c>>] : c \in ShortOptions \cup {"x"}}
    \cup {[kind |-> "short", text |-> <<"n", "b">>],
          [kind |-> "short", text |-> <<"b", "n">>]}
    \cup {[kind |-> "long", text |-> name] :
              name \in LongOptions \cup {"help", "version", "bad"}}
    \cup {[kind |-> "path", text |-> <<97, LF>>],
          [kind |-> "path", text |-> <<TAB, 97>>]}

ArgumentLists == UNION {[1..k -> Arguments] : k \in 0..MaxArgs}

\* main: parse_args is entered with the arguments of the command line
InitArgs ==
    /\ args \in ArgumentLists
    /\ arg_index = 0
    /\ options = Options_new
    /\ files = <<>>
    /\ file_index = 0
    /\ input = <<>>
    /\ inbuf = <<>>
    /\ pos = 0
    /\ state = NewState
    /\ out = <<>>
    /\ flushes = {}
    /\ io_failed = "none"
    /\ pc = "parse_args"
    /\ result = "Running"

\* main.rs: parse_args, one iteration of its loop at an option argument
parse_args_option ==
    /\ pc = "parse_args"
    /\ arg_index < Len(args)
    /\ LET arg == args[arg_index + 1]
       IN  /\ arg.kind \in {"long", "short"}
           /\ valid_argument(arg)
           /\ options' = IF arg.kind = "long"
                         THEN long_option(options, arg.text)
                         ELSE short_options(options, arg.text)
    /\ arg_index' = arg_index + 1
    /\ UNCHANGED <<args, files, file_index, input, inbuf, pos, state, out,
                   flushes, io_failed, pc, result>>

\* main.rs: parse_args, one iteration of its loop at an argument that does
\* not start with "-": file_paths.push
parse_args_path ==
    /\ pc = "parse_args"
    /\ arg_index < Len(args)
    /\ args[arg_index + 1].kind = "path"
    /\ files' = Append(files, args[arg_index + 1].text)
    /\ arg_index' = arg_index + 1
    /\ UNCHANGED <<args, options, file_index, input, inbuf, pos, state, out,
                   flushes, io_failed, pc, result>>

\* main.rs: parse_args, --help or --version: the text is printed on the
\* standard output and the process exits with status 0
parse_args_exit ==
    /\ pc = "parse_args"
    /\ arg_index < Len(args)
    /\ args[arg_index + 1].kind = "long"
    /\ \/ /\ args[arg_index + 1].text = "help"
          /\ out' = out \o usage(program)
       \/ /\ args[arg_index + 1].text = "version"
          /\ \E version \in Versions :
                out' = out \o version_line(program, version)
    /\ pc' = "done"
    /\ result' = "Exit0"
    /\ UNCHANGED <<args, arg_index, options, files, file_index, input, inbuf,
                   pos, state, flushes, io_failed>>

\* main.rs: parse_args, an invalid option: invalid_option writes to the
\* standard error and the process exits with status 1
parse_args_invalid ==
    /\ pc = "parse_args"
    /\ arg_index < Len(args)
    /\ ~valid_argument(args[arg_index + 1])
    /\ ~(/\ args[arg_index + 1].kind = "long"
         /\ args[arg_index + 1].text \in {"help", "version"})
    /\ pc' = "done"
    /\ result' = "Exit1"
    /\ UNCHANGED <<args, arg_index, options, files, file_index, input, inbuf,
                   pos, state, out, flushes, io_failed>>

\* main.rs: parse_args returns and main calls cat_files
parse_args_return ==
    /\ pc = "parse_args"
    /\ arg_index = Len(args)
    /\ pc' = "cat_files"
    /\ UNCHANGED <<args, arg_index, options, files, file_index, input, inbuf,
                   pos, state, out, flushes, io_failed, result>>

NextArgs ==
    \/ parse_args_option
    \/ parse_args_path
    \/ parse_args_exit
    \/ parse_args_invalid
    \/ parse_args_return
    \/ cat_files_next
    \/ cat_files_open_err
    \/ cat_files_return
    \/ cat_fast_copy
    \/ cat_fast_eof
    \/ cat_lines_read
    \/ cat_lines_eof
    \/ cat_lines_newline
    \/ cat_lines_body
    \/ cat_lines_debug_assert

\* main on a command line
ArgsSpec == InitArgs /\ [][NextArgs]_vars

\* The rendering of single bytes: an invocation on one file that holds any
\* byte 0..255 among at most MaxRenderLen bytes of Alphabet, with
\* show_nonprinting enabled, no numbering and no squeezing.
RenderOptions ==
    {o \in OptionsSet :
        o.show_nonprinting /\ ~o.squeeze_blank /\ o.number = "None"}

RenderFiles ==
    {<<before \o <<byte>> \o after>> :
        byte \in 0..255,
        before \in ByteStrings(MaxRenderLen),
        after \in ByteStrings(MaxRenderLen)}

InitRender ==
    \E o \in RenderOptions, fs \in RenderFiles :
        /\ Len(fs[1]) <= MaxRenderLen + 1
        /\ Start(o, fs)

NextRender ==
    \/ cat_files_next
    \/ cat_files_return
    \/ cat_lines_read
    \/ cat_lines_eof
    \/ cat_lines_newline
    \/ cat_lines_body

RenderSpec == InitRender /\ [][NextRender]_vars

(***************************************************************************)
(* Reference renderings, written from the specification, that the claims   *)
(* compare the sink with.                                                  *)
(***************************************************************************)
\* lib.rs: cat_lines on a chunk from position pos to its end: the iterations
\* of the inner loop, in a build without debug assertions
RECURSIVE scan_chunk(_, _, _, _, _)
scan_chunk(output, opts, st, buf, p) ==
    IF p >= Len(buf)
    THEN [output |-> output, state |-> st]
    ELSE LET r == scan_step(output, opts, st, buf, p)
         IN  IF r.brk
             THEN [output |-> r.output, state |-> r.state]
             ELSE scan_chunk(r.output, opts, r.state, buf, r.pos)

\* what cat_lines writes when one read returns the whole of bytes
OneRead(opts, bytes) == scan_chunk(<<>>, opts, NewState, bytes, 0).output

\* the run is over and cat_files returned Ok(())
Finished == pc = "done" /\ result = "Ok"

\* the number of places where pat occurs in s
Count(s, pat) ==
    Cardinality({i \in 1..(Len(s) - Len(pat) + 1) :
                    SubSeq(s, i, i + Len(pat) - 1) = pat})

\* s has no carriage return
NoCR(s) == \A i \in 1..Len(s) : s[i] # CR

\* s is one or more non-empty lines, each ended by a b'\n', without b'\r'
PlainLines(s) ==
    /\ s # <<>>
    /\ s[Len(s)] = LF
    /\ s[1] # LF
    /\ NoCR(s)
    /\ \A i \in 1..(Len(s) - 1) : ~(s[i] = LF /\ s[i + 1] = LF)

\* the lines of s, each behind its number field; the first one has number k
RECURSIVE NumberedFrom(_, _)
NumberedFrom(s, k) ==
    IF s = <<>> THEN <<>>
    ELSE LET p == position(s, {LF})
         IN  IF p = -1 THEN format_line_number(k) \o s
             ELSE format_line_number(k) \o Head0(s, p + 1)
                      \o NumberedFrom(Tail0(s, p + 1), k + 1)

\* the lines of s, the non-empty ones behind consecutive number fields from k,
\* the empty ones as a bare b'\n'
RECURSIVE NumberedNonEmpty(_, _)
NumberedNonEmpty(s, k) ==
    IF s = <<>> THEN <<>>
    ELSE LET p == position(s, {LF})
         IN  IF p = -1 THEN format_line_number(k) \o s
             ELSE IF p = 0 THEN <<LF>> \o NumberedNonEmpty(Tail0(s, 1), k)
             ELSE format_line_number(k) \o Head0(s, p + 1)
                      \o NumberedNonEmpty(Tail0(s, p + 1), k + 1)

\* for each line of s that a b'\n' ends, whether it is empty
RECURSIVE EmptyLines(_)
EmptyLines(s) ==
    LET p == position(s, {LF})
    IN  IF p = -1 THEN <<>>
        ELSE <<p = 0>> \o EmptyLines(Tail0(s, p + 1))

\* flags without its leading run of TRUE
RECURSIVE DropLeading(_)
DropLeading(flags) ==
    IF flags # <<>> /\ Head(flags) THEN DropLeading(Tail(flags)) ELSE flags

\* s with every tab replaced by ^I
RECURSIVE TabsMarked(_)
TabsMarked(s) ==
    IF s = <<>> THEN <<>>
    ELSE (IF Head(s) = TAB THEN <<Caret, UpperI>> ELSE <<Head(s)>>)
             \o TabsMarked(Tail(s))

\* s with $ before every b'\n', and ^M for a b'\r' right before a b'\n'
RECURSIVE EndsMarked(_)
EndsMarked(s) ==
    IF s = <<>> THEN <<>>
    ELSE IF Len(s) >= 2 /\ s[1] = CR /\ s[2] = LF
    THEN <<Caret, UpperM, Dollar, LF>> \o EndsMarked(Tail0(s, 2))
    ELSE IF s[1] = LF THEN <<Dollar, LF>> \o EndsMarked(Tail(s))
    ELSE <<s[1]>> \o EndsMarked(Tail(s))

\* the rendering of a byte other than b'\n' by its class
ByteClass(b, tabs) ==
    CASE b \in 32..126 -> <<b>>
      [] b = 9 -> IF tabs THEN <<Caret, UpperI>> ELSE <<9>>
      [] b \in (0..8) \cup (11..31) -> <<Caret, b + 64>>
      [] b = 127 -> <<Caret, Quest>>
      [] b \in 128..159 -> <<UpperM, Minus, Caret, b - 64>>
      [] b \in 160..254 -> <<UpperM, Minus, b - 128>>
      [] b = 255 -> <<UpperM, Minus, Caret, Quest>>

\* s with every byte rendered by its class and every b'\n' as the end of line
RECURSIVE ClassRendering(_, _)
ClassRendering(s, opts) ==
    IF s = <<>> THEN <<>>
    ELSE (IF Head(s) = LF THEN end_of_line(opts)
          ELSE ByteClass(Head(s), opts.show_tabs))
             \o ClassRendering(Tail(s), opts)

\* s without its b'\r' bytes
RECURSIVE WithoutCR(_)
WithoutCR(s) ==
    IF s = <<>> THEN <<>>
    ELSE (IF Head(s) = CR THEN <<>> ELSE <<Head(s)>>) \o WithoutCR(Tail(s))

\* configurations with one option enabled
OnlyNumber(mode) == [Options_new EXCEPT !.number = mode]
OnlySqueeze == [Options_new EXCEPT !.squeeze_blank = TRUE]
OnlyTabs == [Options_new EXCEPT !.show_tabs = TRUE]
OnlyEnds == [Options_new EXCEPT !.show_ends = TRUE]

(***************************************************************************)
(* The claims.                                                             *)
(***************************************************************************)
\* C1: on the annotated path the bytes written do not depend on how the reads
\* split the input: a finished run has written what a run whose single read
\* returns the whole input writes.
C1_ChunkingInvisible ==
    (Finished /\ ~can_write_fast(options)) => out = OneRead(options, files[1])

\* C2: with the all-default configuration the sink holds exactly the input
\* when the run is over, whatever the reads returned and the writes accepted.
C2_FastCopyIsInput ==
    (Finished /\ can_write_fast(options)) => out = files[1]

\* C3: with numbering All alone, the k-th of n plain lines is written behind
\* the number k in a field of width 6 and a tab: the fields are 1, 2, 3, ...
C3_NumbersFromOne ==
    (Finished /\ options = OnlyNumber("All") /\ PlainLines(files[1]))
        => out = NumberedFrom(files[1], 1)

\* C4: with numbering enabled the line counter carries over from one file to
\* the next: the lines of two files of plain lines are numbered consecutively
\* over both files.
C4_NumbersCarryOver ==
    (/\ Finished
     /\ options \in {OnlyNumber("All"), OnlyNumber("NonEmpty")}
     /\ Len(files) = 2
     /\ PlainLines(files[1])
     /\ PlainLines(files[2]))
        => \E first \in 0..1 : out = NumberedFrom(files[1] \o files[2], first)

\* C5: with numbering NonEmpty alone and no carriage return in the input,
\* every non-empty line is written behind a number field, every empty line as
\* a bare b'\n' that takes no number, and the numbers are consecutive from
\* the initial line_number.
C5_NonEmptyNumbering ==
    (Finished /\ options = OnlyNumber("NonEmpty") /\ NoCR(files[1]))
        => out = NumberedNonEmpty(files[1], NewState.line_number)

C5_Witness ==
    /\ Finished
    /\ options = OnlyNumber("NonEmpty")
    /\ files[1] = <<97, LF, LF, 97>>
    /\ out = format_line_number(0) \o <<97, LF, LF>>
                 \o format_line_number(1) \o <<97>>

\* C6: with squeeze_blank alone, every run of empty input lines after a
\* non-empty line is exactly one empty line of the output: the output has as
\* many empty lines right after a non-empty line as the input, and no empty
\* line right after an empty line that follows a non-empty line.
C6_OneBlankPerRun ==
    (Finished /\ options = OnlySqueeze)
        => /\ Count(EmptyLines(out), <<FALSE, TRUE>>)
                = Count(EmptyLines(files[1]), <<FALSE, TRUE>>)
           /\ Count(DropLeading(EmptyLines(out)), <<TRUE, TRUE>>) = 0

\* C7: with show_tabs alone and no carriage return in the input, a run whose
\* file was opened (it returned Ok(()) or it panicked) returned Ok(()) and its
\* output is the input with every tab replaced by ^I.
C7_TabsMarked ==
    (/\ pc = "done"
     /\ result \in {"Ok", "Panic"}
     /\ options = OnlyTabs
     /\ NoCR(files[1]))
        => (result = "Ok" /\ out = TabsMarked(files[1]))

\* C8: with show_nonprinting enabled (no numbering, no squeezing) every byte
\* but b'\n' is written as its class says, a b'\n' as the end of line, and
\* every byte written is in 0..255.
C8_NonprintingClasses ==
    (Finished /\ options \in RenderOptions)
        => /\ out = ClassRendering(files[1], options)
           /\ \A i \in 1..Len(out) : out[i] \in 0..255

C8_Witness ==
    /\ Finished
    /\ options.show_nonprinting
    /\ options.show_tabs
    /\ ~options.show_ends
    /\ files[1] = <<TAB, 200>>
    /\ out = <<Caret, UpperI, UpperM, Minus, 72>>

\* C9: with show_ends alone, every b'\r' right before a b'\n' is written as
\* ^M$ and the b'\n', in its place among the other bytes, wherever the reads
\* split the input (carriage returns not before a b'\n' are left aside).
C9_CarriageReturnAtEnd ==
    (Finished /\ options = OnlyEnds)
        => WithoutCR(out) = WithoutCR(EndsMarked(files[1]))

C9_Witness ==
    /\ pc = "cat_lines"
    /\ options = OnlyEnds
    /\ files[1] = <<97, CR, LF>>
    /\ input = <<>>
    /\ inbuf = <<LF>>
    /\ out = <<97, Caret, UpperM, Dollar, LF>>

\* C10: on the annotated path with show_ends and show_nonprinting off, every
\* b'\r' right before a b'\n' in the input is written right before that
\* b'\n': the output has as many b'\r' b'\n' pairs as the input.
C10_CarriageReturnLiteral ==
    (/\ Finished
     /\ ~can_write_fast(options)
     /\ ~options.show_ends
     /\ ~options.show_nonprinting)
        => Count(out, <<CR, LF>>) = Count(files[1], <<CR, LF>>)

\* C11: when the input ends while a carriage return is deferred (on the
\* annotated path without show_nonprinting: the input ends with b'\r'), the
\* carriage return is written before the run returns: it is the last byte of
\* the output.
C11_TrailingCarriageReturn ==
    (/\ Finished
     /\ ~can_write_fast(options)
     /\ ~options.show_nonprinting
     /\ files[1] # <<>>
     /\ files[1][Len(files[1])] = CR)
        => (out # <<>> /\ out[Len(out)] = CR)

\* C14: cat takes the fast path exactly for the all-default configuration:
\* inside cat_fast the options are the defaults, inside cat_lines they are not.
C14_FastPathIffDefault ==
    (pc \in {"cat_fast", "cat_lines", "scan"})
        => ((pc = "cat_fast") <=> (options = Options_new))

C14_Witness ==
    /\ pc = "cat_lines"
    /\ options = OnlySqueeze
    /\ file_index = 1
    /\ input = files[1]
    /\ input # <<>>
    /\ out = <<>>

\* the 7 bytes of s from position i (1-based) are a line-number field
IsNumberField(s, i) ==
    /\ i + NumberWidth <= Len(s)
    /\ s[i + NumberWidth] = TAB
    /\ s[i + NumberWidth - 1] \in Zero..(Zero + 9)
    /\ \A k \in i..(i + NumberWidth - 2) : s[k] \in {Space} \cup (Zero..(Zero + 9))

\* C17: with numbering enabled every line-number field of the output is the
\* first thing on its output line (so a line has at most one).
C17_NumberFieldStartsLine ==
    (options.number # "None")
        => \A i \in 1..Len(out) :
               IsNumberField(out, i) => (i = 1 \/ out[i - 1] = LF)

\* C18: the body-rendering routine of the configuration, applied by an
\* iteration of cat_lines to the rest of the chunk, returns the number of
\* bytes it consumed: the position of the first stop byte (b'\n', and b'\r'
\* unless show_nonprinting), or the length when there is none.
C18_ConsumedCount ==
    (pc = "scan" /\ inbuf[pos + 1] # LF)
        => LET rest == Tail0(inbuf, pos)
               stops == IF options.show_nonprinting THEN {LF} ELSE {LF, CR}
               p == position(rest, stops)
           IN  write_end(out, rest, options).ret
                   = IF p = -1 THEN Len(rest) ELSE p

\* an iteration of cat_lines is at a b'\n', at a line start, with a blank line
\* kept and squeeze_blank enabled
AtSqueezedNewline ==
    /\ pc = "scan"
    /\ inbuf[pos + 1] = LF
    /\ options.squeeze_blank
    /\ state.at_line_start
    /\ state.one_blank_kept

\* C19: the iteration at a squeezed b'\n' writes nothing, leaves line_number
\* unchanged and leaves one_blank_kept true.
C19_SqueezedNewlineFrame ==
    [][AtSqueezedNewline
          => /\ out' = out
             /\ state'.line_number = state.line_number
             /\ state'.one_blank_kept]_vars

C19_Witness ==
    /\ Finished
    /\ options = [Options_new EXCEPT !.squeeze_blank = TRUE, !.number = "All"]
    /\ files[1] = <<LF, LF, 97>>
    /\ out = format_line_number(0) \o <<LF>> \o format_line_number(1) \o <<97>>
    /\ state.line_number = 2

\* C20: between two iterations of an annotated run, at_line_start is true
\* exactly when nothing has been written or the last byte written is a b'\n'.
C20_AtLineStartMeaning ==
    (pc \in {"cat_lines", "scan"})
        => (state.at_line_start <=> (out = <<>> \/ out[Len(out)] = LF))

\* the calls of every iteration write what the iteration writes
CallsAgree ==
    (pc = "scan")
        => sink_after(scan_calls(options, state, inbuf, pos),
                      [bytes |-> out, flushes |-> flushes]).bytes
               = scan_step(out, options, state, inbuf, pos).output

\* C12: after a failed read the run does not return success: it ends with an
\* I/O error.
C12_ReadFailureIsError ==
    (pc = "done" /\ io_failed = "read") => result = "Err"

\* C13: after a failed write of an annotated run, the run ends by returning
\* an I/O error, in no other way.
C13_WriteFailureIsError ==
    (pc = "done" /\ io_failed = "write" /\ ~can_write_fast(options))
        => result = "Err"

\* C15: on the annotated path the sink is flushed right after every line
\* terminator: at the length the output has with the b'\n' as its last byte.
C15_FlushAfterTerminator ==
    (~can_write_fast(options))
        => \A i \in 1..Len(out) : out[i] = LF => i \in flushes

C15_Witness ==
    /\ Finished
    /\ options = OnlyEnds
    /\ files[1] = <<97, LF, LF>>
    /\ out = <<97, Dollar, LF, Dollar, LF>>
    /\ flushes = {3, 5}

\* the arguments hold the option c, as a character of a short argument or as
\* the long argument name
HasOption(c, name) ==
    \E i \in 1..Len(args) :
        \/ args[i].kind = "long" /\ args[i].text = name
        \/ /\ args[i].kind = "short"
           /\ \E k \in 1..Len(args[i].text) : args[i].text[k] = c

\* C16: when parse_args returns, the numbering mode is NonEmpty if the
\* arguments hold a -b (or --number-nonblank), whatever the order, and All if
\* they hold a -n (or --number) and no -b.
C16_NonblankOverridesNumber ==
    (pc = "cat_files" /\ arg_index = Len(args))
        => /\ HasOption("b", "number-nonblank") => options.number = "NonEmpty"
           /\ (HasOption("n", "number") /\ ~HasOption("b", "number-nonblank"))
                  => options.number = "All"

C16_Witness ==
    /\ pc = "cat_files"
    /\ args = <<[kind |-> "short", text |-> <<"b">>],
                [kind |-> "long", text |-> "number"],
                [kind |-> "short", text |-> <<"n">>]>>
    /\ arg_index = 3
    /\ options.number = "NonEmpty"

\* the bytes of the file that the scanner has processed so far
Consumed ==
    LET pending == Len(input) + (IF pc = "scan" THEN Len(inbuf) - pos ELSE 0)
    IN  Head0(files[1], Len(files[1]) - pending)

\* C21: with show_nonprinting no b'\r' is deferred: skipped_carriage_return is
\* false in every state, the output has no raw b'\r' and one ^M for every
\* b'\r' processed so far, and without numbering and squeezing the output is
\* the byte-by-byte rendering of the bytes processed so far, so every ^M is
\* at the place of its b'\r', wherever the reads end.
C21_CarriageReturnNeverDeferred ==
    options.show_nonprinting
        => /\ ~state.skipped_carriage_return
           /\ (pc \in {"cat_lines", "scan"} \/ Finished)
                  => /\ NoCR(out)
                     /\ Count(out, <<Caret, UpperM>>) = Count(Consumed, <<CR>>)
                     /\ (options.number = "None" /\ ~options.squeeze_blank)
                            => out = ClassRendering(Consumed, options)

C21_Witness ==
    /\ pc = "cat_lines"
    /\ options = [Options_new EXCEPT !.show_nonprinting = TRUE]
    /\ files[1] = <<CR, 97, CR, LF>>
    /\ inbuf = <<CR>>
    /\ input = <<97, CR, LF>>
    /\ out = <<Caret, UpperM>>
    /\ ~state.skipped_carriage_return

====
